---------------------------- MODULE Spec2Model ----------------------------
(***************************************************************************)
(* Model of src/app.py: the admin "event database rebuild" of the          *)
(* SHOWROOM event viewer (run_db_update / run_add_db_update), the roster    *)
(* pager it uses (fetch_all_pages_entries) and the helpers they call.       *)
(*                                                                         *)
(* Encoding of Python values:                                              *)
(*   - a text that is either empty or computed (event name, URL, image,     *)
(*     formatted time) is a tuple: <<>> is "" and <<x>> a non-empty text;   *)
(*   - an optional number (parse_to_ts) is <<>> for None and <<n>> for n;   *)
(*   - event ids and room ids are canonical decimal strings of equal        *)
(*     length, modelled by their integer value (string equality and string  *)
(*     order then agree with the integers');                                *)
(*   - a DataFrame is the sequence of its rows, a row a record.             *)
(***************************************************************************)
EXTENDS Integers, Sequences, FiniteSets, TLC

(***************************************************************************)
(* Bounds of the model.                                                    *)
(***************************************************************************)
FirstEventId == 500
\* the event ids of the model: two consecutive ids
LastEventId == FirstEventId + 1
\* the longest roster of an event, and the entries the endpoint serves per page
MaxEntries == 2
PageSize == 1
\* the most rows of a published snapshot before the rebuild
MaxRows == 2
\* the page requests after which the exploration of one pager run stops
MaxPages == 3
\* the rows of a frame the viewer's helpers are applied to
MaxFrame == 2
\* the most records of one participant that are ranked by points
MaxRecords == 6
\* the rows of a snapshot whose ongoing rows are refreshed
MaxRefresh == 3

EventIds == FirstEventId .. LastEventId
Rooms == {7, 8}
Ranks == {1}
Points == {150}
Levels == {5}
Keys == EventIds \X Rooms

\* the attempts of ftp_upload_bytes (its retries parameter)
FtpRetries == 2

\* the largest retries argument of http_get_json that is explored (default 3)
MaxRetries == 3
\* its backoff argument, in tenths of a second (default 0.6)
Backoff == 6

\* Epoch values of the model are scaled so that they fit TLC's integers; the
\* threshold above which a number is read as milliseconds keeps its role.
MsThreshold == 2000000

(***************************************************************************)
(* Sequence helpers.                                                       *)
(***************************************************************************)
RECURSIVE SeqsUpTo(_, _)
SeqsUpTo(S, n) ==
    IF n = 0 THEN {<<>>}
    ELSE LET shorter == SeqsUpTo(S, n - 1)
         IN  shorter \cup {Append(s, x) : s \in {t \in shorter : Len(t) = n - 1}, x \in S}

RECURSIVE SelectSeqBy(_, _)
\* the rows of s whose index is in keep, in order (df[mask])
SelectSeqBy(s, keep) ==
    IF s = <<>> THEN <<>>
    ELSE LET n == Len(s)
             front == SelectSeqBy(SubSeq(s, 1, n - 1), keep)
         IN  IF n \in keep THEN Append(front, s[n]) ELSE front

Min(a, b) == IF a < b THEN a ELSE b

(***************************************************************************)
(* http_get_json, in its two variants: the viewer's (module level) and the  *)
(* admin block's.  An answer is an HTTP status or an exception of requests. *)
(***************************************************************************)
Statuses == {"200", "404", "410", "429", "500", "503"}
Exceptions == {"timeout", "connection"}
Answers == Statuses \cup Exceptions

\* an attempt that treats "gone" like any other failure
HttpAttempt_retry_gone(variant, i, answer) ==
    IF answer = "200" THEN [outcome |-> "json", slept |-> 0]
    ELSE IF variant = "admin" /\ answer = "429"
         THEN [outcome |-> "next", slept |-> Backoff * (i + 2)]
    ELSE IF variant = "admin" /\ answer \in Statuses
         THEN [outcome |-> "next", slept |-> 0]
    ELSE [outcome |-> "next", slept |-> Backoff * (i + 1)]

\* the body of "for i in range(retries)": what the attempt with loop index i
\* does on the answer; outcome "json": return r.json(), "None": return None,
\* "next": the next iteration; slept: the time.sleep of the iteration
HttpAttempt(variant, i, answer) ==
    IF variant = "viewer"
    THEN IF answer = "200" THEN [outcome |-> "json", slept |-> 0]
         ELSE IF answer \in {"404", "410"} THEN [outcome |-> "None", slept |-> 0]
         ELSE [outcome |-> "next", slept |-> Backoff * (i + 1)]
    ELSE IF answer = "429" THEN [outcome |-> "next", slept |-> Backoff * (i + 2)]
         ELSE IF answer = "200" THEN [outcome |-> "json", slept |-> 0]
         ELSE IF answer \in {"404", "410"} THEN [outcome |-> "None", slept |-> 0]
         ELSE IF answer \in Exceptions
              THEN [outcome |-> "next", slept |-> Backoff * (i + 1)]
         ELSE [outcome |-> "next", slept |-> 0]

(***************************************************************************)
(* Time helpers.  A formatted time "YYYY/MM/DD HH:MM" (JST) is modelled by  *)
(* the minute it names: <<m>> is the text of minute m, <<>> is "".  The     *)
(* other values the viewer's helpers are applied to are tagged pairs:       *)
(*   <<"num", n>>   the number n, or the decimal text of n;                 *)
(*   <<"date", d>>  the text "YYYY/MM/DD" of day d;                         *)
(*   <<"junk", s>>  any other text; s: it contains a "/".                   *)
(* Epoch 0 of the model is a midnight in JST.                               *)
(***************************************************************************)
Num(n) == <<"num", n>>
DateText(d) == <<"date", d>>
Junk(slash) == <<"junk", slash>>

\* fmt_time of the rebuild block: None -> "", milliseconds divided, minute text
fmt_time_admin(ts) ==
    IF ts = <<>> THEN <<>>
    ELSE LET t == IF ts[1] > MsThreshold THEN ts[1] \div 1000 ELSE ts[1]
         IN  <<t \div 60>>

\* fmt_time of the viewer: "" for None / "", a text with "/" re-rendered when
\* it parses (a date gets 00:00) and returned as it is otherwise, a number
\* rendered to its minute after the millisecond division, "" for the rest
fmt_time(ts) ==
    IF ts = <<>> THEN <<>>
    ELSE IF Len(ts) = 1 THEN ts
    ELSE IF ts[1] = "date" THEN <<ts[2] * 1440>>
    ELSE IF ts[1] = "junk" THEN (IF ts[2] THEN ts ELSE <<>>)
    ELSE LET t == IF ts[2] > MsThreshold THEN ts[2] \div 1000 ELSE ts[2]
         IN  <<t \div 60>>

\* a parse that reads a time text as UTC instead of JST
parse_to_ts_as_utc(val) ==
    IF val = <<>> THEN <<>>
    ELSE IF Len(val) = 1 THEN <<val[1] * 60 + 32400>>
    ELSE IF val[1] = "num"
         THEN <<IF val[2] > MsThreshold THEN val[2] \div 1000 ELSE val[2]>>
    ELSE IF val[1] = "date" THEN <<val[2] * 86400 + 32400>>
    ELSE <<>>

\* a parse that reads the threshold itself as milliseconds
parse_to_ts_threshold_included(val) ==
    IF val = <<>> THEN <<>>
    ELSE IF Len(val) = 1 THEN <<val[1] * 60>>
    ELSE IF val[1] = "num"
         THEN <<IF val[2] >= MsThreshold THEN val[2] \div 1000 ELSE val[2]>>
    ELSE IF val[1] = "date" THEN <<val[2] * 86400>>
    ELSE <<>>

\* parse_to_ts: None for None / "", a number after the millisecond division,
\* the epoch of "YYYY/MM/DD HH:MM", the epoch of "YYYY/MM/DD", None otherwise
parse_to_ts(val) ==
    IF val = <<>> THEN <<>>
    ELSE IF Len(val) = 1 THEN <<val[1] * 60>>
    ELSE IF val[1] = "num"
         THEN <<IF val[2] > MsThreshold THEN val[2] \div 1000 ELSE val[2]>>
    ELSE IF val[1] = "date" THEN <<val[2] * 86400>>
    ELSE <<>>

\* the classification that forgets the grace hour
is_ongoing_without_grace(x, now_ts) == x # <<>> /\ x[1] > now_ts

\* lambda x: pd.notna(x) and x > now_ts - 3600
is_ongoing(x, now_ts) == x # <<>> /\ x[1] > now_ts - 3600

\* lambda x: pd.notna(x) and today_ts <= x < (today_ts + 86400)
is_end_today(x, today_ts) == x # <<>> /\ today_ts <= x[1] /\ x[1] < today_ts + 86400

\* datetime.now(JST).replace(hour=0, minute=0, second=0, microsecond=0)
Midnight(now_ts) == (now_ts \div 86400) * 86400

(***************************************************************************)
(* Point ranking of the liver mode.  A value of the point column is <<n>>   *)
(* for a number (or its text), <<>> for "", Junk(FALSE) for any other text. *)
(***************************************************************************)
\* the styles of HIGHLIGHT_COLORS, by rank
HIGHLIGHT_COLORS == <<"#ff7f7f", "#ff9999", "#ffb2b2", "#ffcccc", "#ffe5e5">>

\* pd.to_numeric(..., errors='coerce'): <<>> is NaN
to_numeric(v) == IF Len(v) = 1 THEN v ELSE <<>>

\* a ranking that leaves gaps after ties (method='min')
rank_dense_with_gaps(nums, i) ==
    IF nums[i] = <<>> THEN <<>>
    ELSE <<1 + Cardinality({j \in DOMAIN nums : nums[j] # <<>> /\ nums[j][1] > nums[i][1]})>>

\* df_valid_points['__point_num'].rank(method='dense', ascending=False) for
\* the row i: rows without a number are dropped before (no rank: <<>>); the
\* rank is the position of the row's value among the distinct values, largest
\* first
rank_dense(nums, i) ==
    IF nums[i] = <<>> THEN <<>>
    ELSE <<1 + Cardinality({nums[j][1] : j \in {k \in DOMAIN nums :
                                nums[k] # <<>> /\ nums[k][1] > nums[i][1]}})>>

\* '' unless the loop over HIGHLIGHT_COLORS finds the row's rank
highlight_style(rank) ==
    IF rank # <<>> /\ rank[1] \in DOMAIN HIGHLIGHT_COLORS
    THEN HIGHLIGHT_COLORS[rank[1]] ELSE ""

(***************************************************************************)
(* The remote service as the rebuild sees it.                              *)
(***************************************************************************)
\* started_at / ended_at of an event as the contribution API reports them:
\* an event with a larger id starts later, and ends earlier (event ids follow
\* the creation of the events, not their end)
StartedAt(e) == <<(e - FirstEventId + 1) * 3600 + 7>>
EndedAt(e) == <<(2 * (LastEventId - FirstEventId) + 2 - (e - FirstEventId)) * 3600 + 7>>

\* the "event" object of the contribution_ranking API for event e
EventDetail(e) ==
    [event_name |-> <<e>>, started_at |-> StartedAt(e), ended_at |-> EndedAt(e),
     event_url |-> <<e>>, image |-> <<e>>]

\* one entry of room_list's "list".  A key that is missing (or null) is <<>>,
\* a number n is <<n>>; event_entry is <<>> when it is not an object, and <<q>>
\* when it is an object whose quest_level is q (<<>>: it has none).  The
\* rosters of the rebuild hold well-formed entries: rank, point and flat
\* quest_level present.
Entry ==
    [room_id : Rooms, rank : {<<r>> : r \in Ranks}, position : {<<>>},
     point : {<<p>> : p \in Points}, total_point : {<<>>},
     quest_level : {<<l>> : l \in Levels}, event_entry : {<<>>}]

\* what the roster endpoint holds for one event, and how it misbehaves:
\* roster: the entries, served PageSize per page; fail_at: the page whose
\* request returns no data after retries (0: none)
Apis ==
    {a \in [roster : SeqsUpTo(Entry, MaxEntries),
             fail_at : 0 .. (MaxEntries + PageSize - 1) \div PageSize + 1] :
        \* a page that is never requested cannot fail
        a.fail_at <= (IF Len(a.roster) = 0 THEN 1
                      ELSE (Len(a.roster) + PageSize - 1) \div PageSize)}

NumPages(api) ==
    IF Len(api.roster) = 0 THEN 1 ELSE (Len(api.roster) + PageSize - 1) \div PageSize

\* http_get_json(API_ROOM_LIST, {event_id, p}): <<>> is None, else the JSON
RoomListResponse(api, p) ==
    IF p = api.fail_at \/ p > NumPages(api) THEN <<>>
    ELSE << [list |-> SubSeq(api.roster, (p - 1) * PageSize + 1,
                             Min(p * PageSize, Len(api.roster))),
             next_page |-> p < NumPages(api),
             current_page |-> p,
             last_page |-> NumPages(api)] >>


(***************************************************************************)
(* fetch_all_pages_entries: the roster pager.  filter_ids = {} stands for   *)
(* both None and the empty set (the code tests its truth value only).       *)
(***************************************************************************)
PagerInit == [entries |-> <<>>, page |-> 1, seen_pages |-> {}, done |-> FALSE]

FilterEntries(page_entries, filter_ids) ==
    IF filter_ids # {}
    THEN SelectSeqBy(page_entries,
                     {i \in DOMAIN page_entries : page_entries[i].room_id \in filter_ids})
    ELSE page_entries

\* one iteration of the while loop, data being what http_get_json returned
PagerStep(st, data, filter_ids) ==
    IF data = <<>> THEN [st EXCEPT !.done = TRUE]
    ELSE IF st.page \in st.seen_pages THEN [st EXCEPT !.done = TRUE]
    ELSE LET d == data[1]
             got == st.entries \o FilterEntries(d.list, filter_ids)
             seen == st.seen_pages \cup {st.page}
         IN  IF ~d.next_page \/ d.current_page = d.last_page
             THEN [entries |-> got, page |-> st.page, seen_pages |-> seen, done |-> TRUE]
             ELSE [entries |-> got, page |-> st.page + 1, seen_pages |-> seen,
                   done |-> FALSE]

RECURSIVE PagerRun(_, _, _)
PagerRun(st, api, filter_ids) ==
    IF st.done THEN st
    ELSE PagerRun(PagerStep(st, RoomListResponse(api, st.page), filter_ids), api, filter_ids)

fetch_all_pages_entries(api, filter_ids) ==
    PagerRun(PagerInit, api, filter_ids).entries

(***************************************************************************)
(* process_event_full / process_event_add: the records of one event id.    *)
(***************************************************************************)
\* details[rid] for the rooms whose contribution lookup returned an "event"
Details(event_id, entries, answering) ==
    [rid \in {entries[i].room_id : i \in DOMAIN entries} \cap answering
        |-> EventDetail(event_id)]

\* the truth value Python gives an optional number: None and 0 are false
Truthy(v) == v # <<>> /\ v[1] # 0

\* the text "-" of the rank column
Dash == <<-1>>

\* rank = e.get("rank") or e.get("position") or "-"
entry_rank(e) ==
    IF Truthy(e.rank) THEN e.rank ELSE IF Truthy(e.position) THEN e.position ELSE Dash

\* point = e.get("point") or e.get("total_point") or 0
entry_point(e) ==
    IF Truthy(e.point) THEN e.point[1]
    ELSE IF Truthy(e.total_point) THEN e.total_point[1] ELSE 0

\* quest = X.get("quest_level") if isinstance(X, dict) else (e.get("quest_level") or 0)
\* with X = e.get("event_entry"): the conditional expression binds weaker than
\* "or", so the default 0 belongs to the else branch only
entry_quest(e) ==
    IF e.event_entry # <<>> THEN e.event_entry[1]
    ELSE IF Truthy(e.quest_level) THEN e.quest_level ELSE <<0>>

MakeRec(event_id, e, details) ==
    LET has == e.room_id \in DOMAIN details
        detail == details[e.room_id]
    IN  [pr |-> "",
         liver_name |-> "room_name",
         account_id |-> "account_id",
         event_name |-> IF has THEN detail.event_name ELSE <<>>,
         start |-> IF has THEN fmt_time_admin(detail.started_at) ELSE <<>>,
         end |-> IF has THEN fmt_time_admin(detail.ended_at) ELSE <<>>,
         rank |-> entry_rank(e),
         point |-> entry_point(e),
         note |-> "",
         linked |-> "o",
         url |-> IF has THEN detail.event_url ELSE <<>>,
         level |-> entry_quest(e),
         event_id |-> event_id,
         room_id |-> e.room_id,
         image |-> IF has THEN detail.image ELSE <<>>]

Recs(event_id, entries, answering) ==
    LET details == Details(event_id, entries, answering)
    IN  [i \in DOMAIN entries |-> MakeRec(event_id, entries[i], details)]

FullFilter(managed_ids, target_room_ids) ==
    IF target_room_ids # {} THEN managed_ids \cap target_room_ids ELSE managed_ids

\* api: the roster endpoint for this event; answering: the rooms whose
\* contribution lookup returns an "event"
process_event_full(event_id, managed_ids, target_room_ids, api, answering) ==
    LET entries == fetch_all_pages_entries(api, FullFilter(managed_ids, target_room_ids))
    IN  IF entries = <<>> THEN <<>> ELSE Recs(event_id, entries, answering)

process_event_add(event_id, add_room_ids, api, answering) ==
    LET entries == fetch_all_pages_entries(api, add_room_ids)
    IN  IF entries = <<>> THEN <<>> ELSE Recs(event_id, entries, answering)

(***************************************************************************)
(* The merge of run_db_update / run_add_db_update.                          *)
(***************************************************************************)
\* a lookup by room only
Mask_room_only(merged, new_row) ==
    {i \in DOMAIN merged : merged[i].room_id = new_row.room_id}

\* the index labels of the rows with the new row's key (mask)
Mask(merged, new_row) ==
    {i \in DOMAIN merged :
        merged[i].event_id = new_row.event_id /\ merged[i].room_id = new_row.room_id}

FirstOf(S) == CHOOSE i \in S : \A j \in S : i <= j

\* a merge that forgets the score column
UpdateRow_without_point(old, new_row) ==
    [old EXCEPT !.rank = new_row.rank,
                !.level = new_row.level, !.event_name = new_row.event_name,
                !.start = new_row.start, !.end = new_row.end, !.url = new_row.url]

\* a merge that also refreshes the stored display name
UpdateRow_with_liver_name(old, new_row) ==
    [old EXCEPT !.rank = new_row.rank, !.point = new_row.point,
                !.level = new_row.level, !.event_name = new_row.event_name,
                !.start = new_row.start, !.end = new_row.end, !.url = new_row.url,
                !.liver_name = new_row.liver_name]

\* the columns an update overwrites
UpdateRow(old, new_row) ==
    [old EXCEPT !.rank = new_row.rank, !.point = new_row.point,
                !.level = new_row.level, !.event_name = new_row.event_name,
                !.start = new_row.start, !.end = new_row.end, !.url = new_row.url]

\* a merge loop without the key lookup
MergeRow_always_append(merged, new_row) == Append(merged, new_row)

\* one iteration of "for _, new_row in df_new.iterrows()"
MergeRow(merged, new_row) ==
    LET mask == Mask(merged, new_row)
    IN  IF mask # {}
        THEN [merged EXCEPT ![FirstOf(mask)] = UpdateRow(merged[FirstOf(mask)], new_row)]
        ELSE Append(merged, new_row)

NewPairs(df_new) == {<<df_new[i].event_id, df_new[i].room_id>> : i \in DOMAIN df_new}

\* a pruning without the range test
keep_row_without_range(row, target, scanned_event_ids, new_pairs) ==
    IF target # {} /\ row.room_id \notin target THEN TRUE
    ELSE <<row.event_id, row.room_id>> \in new_pairs

keep_row(row, target, scanned_event_ids, new_pairs) ==
    IF target # {} /\ row.room_id \notin target THEN TRUE
    ELSE IF row.event_id \notin scanned_event_ids THEN TRUE
    ELSE <<row.event_id, row.room_id>> \in new_pairs

keep_row_add(row, scanned_event_ids, new_pairs) ==
    IF row.event_id \notin scanned_event_ids THEN TRUE
    ELSE <<row.event_id, row.room_id>> \in new_pairs

\* merged_df[merged_df.apply(keep_row, axis=1)]
PruneFull(merged, target, scanned_event_ids, new_pairs) ==
    SelectSeqBy(merged,
        {i \in DOMAIN merged : keep_row(merged[i], target, scanned_event_ids, new_pairs)})

PruneAdd(merged, scanned_event_ids, new_pairs) ==
    SelectSeqBy(merged,
        {i \in DOMAIN merged : keep_row_add(merged[i], scanned_event_ids, new_pairs)})

(***************************************************************************)
(* sort_values: a stable sort; missing end timestamps sort last.            *)
(***************************************************************************)
\* ["event_id_num", "ルームID"], ascending = [False, True]
BeforeAdd(a, b) ==
    IF a.event_id # b.event_id THEN a.event_id > b.event_id
    ELSE a.room_id < b.room_id

\* ["__end_ts", "event_id_num", "ルームID"], ascending = [False, False, True]
BeforeFull(a, b) ==
    LET ta == parse_to_ts(a.end)
        tb == parse_to_ts(b.end)
    IN  IF ta = tb THEN BeforeAdd(a, b)
        ELSE IF ta = <<>> THEN FALSE
        ELSE IF tb = <<>> THEN TRUE
        ELSE ta[1] > tb[1]

RECURSIVE InsertRow(_, _, _)
\* x placed after every row that is not strictly after it (stable)
InsertRow(s, x, full) ==
    IF s = <<>> THEN <<x>>
    ELSE LET n == Len(s)
             xFirst == IF full THEN BeforeFull(x, s[n]) ELSE BeforeAdd(x, s[n])
         IN  IF xFirst THEN Append(InsertRow(SubSeq(s, 1, n - 1), x, full), s[n])
             ELSE Append(s, x)

RECURSIVE SortRows(_, _)
SortRows(s, full) ==
    IF s = <<>> THEN <<>>
    ELSE InsertRow(SortRows(SubSeq(s, 1, Len(s) - 1), full), s[Len(s)], full)

SortFull(s) == SortRows(s, TRUE)
SortAdd(s) == SortRows(s, FALSE)

(***************************************************************************)
(* Published snapshots as earlier rebuilds left them.                      *)
(***************************************************************************)
OldRow(e, r) ==
    [pr |-> "o", liver_name |-> "stored name", account_id |-> "stored account",
     event_name |-> <<e>>, start |-> fmt_time_admin(StartedAt(e)),
     end |-> fmt_time_admin(EndedAt(e)), rank |-> <<9>>, point |-> 100,
     note |-> "memo", linked |-> "", url |-> <<e>>, level |-> <<1>>,
     event_id |-> e, room_id |-> r, image |-> <<e>>]

RECURSIVE RowsOf(_)
RowsOf(K) ==
    IF K = {} THEN <<>>
    ELSE LET k == CHOOSE x \in K : TRUE
         IN  Append(RowsOf(K \ {k}), OldRow(k[1], k[2]))


(***************************************************************************)
(* State.                                                                  *)
(***************************************************************************)
VARIABLES
    published,       \* the CSV on the server, per database: "main", "add"
    pc,              \* where the button handler is
    mode,            \* "full": run_db_update, "add": run_add_db_update
    event_id_range,  \* the set start_id .. end_id
    managed_ids,     \* room_list.csv (full) or room_list_add.csv (add)
    target_room_ids, \* the operator's target rooms; {} is None
    pending,         \* the event ids whose future has not completed
    all_records,
    fetch_failed,    \* the event ids whose roster could not be fully read
    detail_ok,       \* the rooms whose contribution lookup answers during the scan
    load_ok,         \* whether load_event_db could read the snapshot
    existing_df,
    merged_df,
    next_row,        \* the position of the merge loop in df_new
    updated_rows,
    added_rows,
    deleted_rows,
    uploads,         \* successful ftp uploads of this invocation
    download_offered,
    success_shown

rebuild_vars ==
    <<published, pc, mode, event_id_range, managed_ids, target_room_ids, pending,
      all_records, fetch_failed, detail_ok, load_ok, existing_df, merged_df, next_row,
      updated_rows, added_rows, deleted_rows, uploads, download_offered,
      success_shown>>

\* one run of fetch_all_pages_entries against an arbitrary endpoint
VARIABLES
    pager_pc,        \* "idle", "running", "returned"
    pager,           \* entries, page, seen_pages of the running call
    filter_ids,      \* its filter_ids argument; {} is None
    requests,        \* the page requests it has issued
    endless,         \* every answer so far was a non-empty page announcing a next page
    last_response,   \* what the last page request returned
    served           \* the current_page numbers of the pages with entries that
                     \* were served before the last answer

pager_vars == <<pager_pc, pager, filter_ids, requests, endless, last_response, served>>

\* two browser sessions of the admin page, each running run_db_update
VARIABLES
    sessions,        \* per session: where its handler is, and its locals
    snapshot0        \* the published snapshot before either session started

session_vars == <<sessions, snapshot0>>

\* one call of http_get_json
VARIABLES
    http             \* variant, retries, loop index i, result, and the log of
                     \* its attempts: the answer and the sleep of each

\* one application of a helper of the viewer to one input
VARIABLES
    calc             \* op: the helper, and its arguments and results

\* one browser session of the viewer: st.session_state, and what the last
\* script run did
VARIABLES
    view

vars == <<rebuild_vars, pager_vars, session_vars, http, calc, view>>

outside_rebuild == <<pager_vars, session_vars, http, calc, view>>
outside_pager == <<rebuild_vars, session_vars, http, calc, view>>
outside_http == <<rebuild_vars, pager_vars, session_vars, calc, view>>
outside_calc == <<rebuild_vars, pager_vars, session_vars, http, view>>
outside_view == <<rebuild_vars, pager_vars, session_vars, http, calc>>

CalcIdle == calc = [op |-> "idle"]

\* no script run yet: the defaults the script gives st.session_state (lines
\* 22-23, 226-245); df_all = <<>>: the key is not in st.session_state
NoRun == [reached |-> "none", active |-> "none", source |-> "none", rows |-> <<>>]

ViewNew ==
    view = [authenticated |-> FALSE, room_input_value |-> <<>>, show_data |-> FALSE,
            refresh_trigger |-> FALSE, admin_full_data |-> FALSE, df_all |-> <<>>,
            run |-> NoRun, attempt |-> <<>>]

HttpIdle ==
    http = [pc |-> "idle", variant |-> "viewer", retries |-> 0, i |-> 0,
            result |-> "", log |-> <<>>]
outside_sessions == <<pc, mode, event_id_range, managed_ids, target_room_ids, pending,
                      all_records, fetch_failed, detail_ok, load_ok, existing_df,
                      merged_df, next_row, updated_rows, added_rows, deleted_rows,
                      uploads, download_offered, success_shown, pager_vars, http, calc,
                      view>>

SessionIds == 1 .. 2

SessionIdle ==
    [pc |-> "idle", event_id_range |-> {}, all_records |-> <<>>, existing_df |-> <<>>,
     merged_df |-> <<>>]

SessionsIdle ==
    /\ sessions = [s \in SessionIds |-> SessionIdle]
    /\ snapshot0 = <<>>

PagerIdle ==
    /\ pager_pc = "idle"
    /\ pager = PagerInit
    /\ filter_ids = {}
    /\ requests = 0
    /\ endless = TRUE
    /\ last_response = <<>>
    /\ served = {}

Db == IF mode = "add" THEN "add" ELSE "main"

Snapshots == {K \in SUBSET Keys : Cardinality(K) <= MaxRows}

RebuildIdle ==
    /\ pc = "idle"
    /\ mode = "none"
    /\ event_id_range = {}
    /\ managed_ids = {}
    /\ target_room_ids = {}
    /\ pending = {}
    /\ all_records = <<>>
    /\ fetch_failed = {}
    /\ detail_ok = {}
    /\ load_ok = TRUE
    /\ existing_df = <<>>
    /\ merged_df = <<>>
    /\ next_row = 1
    /\ updated_rows = 0
    /\ added_rows = 0
    /\ deleted_rows = 0
    /\ uploads = 0
    /\ download_offered = FALSE
    /\ success_shown = FALSE

Init ==
    /\ \E K \in Snapshots :
          published = [main |-> SortFull(RowsOf(K)), add |-> SortAdd(RowsOf(K))]
    /\ RebuildIdle
    /\ PagerIdle
    /\ SessionsIdle
    /\ HttpIdle
    /\ CalcIdle
    /\ ViewNew

scan_unchanged ==
    UNCHANGED <<published, load_ok, existing_df, merged_df, next_row, updated_rows, added_rows,
                deleted_rows, uploads, download_offered, success_shown>>

\* the button "イベントDB更新開始" up to the submission of the futures
run_db_update(start_id, end_id, rooms, target, answering) ==
    /\ pc = "idle"
    /\ pc' = "scan"
    /\ mode' = "full"
    /\ event_id_range' = start_id .. end_id
    /\ managed_ids' = rooms
    /\ target_room_ids' = target
    /\ pending' = start_id .. end_id
    /\ detail_ok' = answering
    /\ UNCHANGED <<all_records, fetch_failed>>
    /\ scan_unchanged

\* the button "登録ユーザーDB更新開始" up to the submission of the futures
run_add_db_update(start_id, end_id, rooms, answering) ==
    /\ pc = "idle"
    /\ pc' = "scan"
    /\ mode' = "add"
    /\ event_id_range' = start_id .. end_id
    /\ managed_ids' = rooms
    /\ target_room_ids' = {}
    /\ pending' = start_id .. end_id
    /\ detail_ok' = answering
    /\ UNCHANGED <<all_records, fetch_failed>>
    /\ scan_unchanged

\* pd.read_csv of the room list raises: the script run ends there
RoomListUnreadable(m) ==
    /\ pc = "idle"
    /\ pc' = "crashed"
    /\ mode' = m
    /\ UNCHANGED <<event_id_range, managed_ids, target_room_ids, pending, all_records,
                   fetch_failed, detail_ok>>
    /\ scan_unchanged

TaskRecs(eid, api) ==
    IF mode = "full"
    THEN process_event_full(eid, managed_ids, target_room_ids, api, detail_ok)
    ELSE process_event_add(eid, managed_ids, api, detail_ok)

\* an iteration that saves what it has collected so far
FutureReturns_with_save(eid, api) ==
    /\ pc = "scan"
    /\ eid \in pending
    /\ pending' = pending \ {eid}
    /\ all_records' = all_records \o TaskRecs(eid, api)
    /\ fetch_failed' = IF api.fail_at # 0 THEN fetch_failed \cup {eid} ELSE fetch_failed
    /\ published' = [published EXCEPT ![Db] = all_records']
    /\ uploads' = uploads + 1
    /\ UNCHANGED <<pc, mode, event_id_range, managed_ids, target_room_ids, detail_ok,
                   load_ok, existing_df, merged_df, next_row, updated_rows, added_rows,
                   deleted_rows, download_offered, success_shown>>

\* one iteration of "for fut in as_completed(futures)" whose fut.result() returns
FutureReturns(eid, api) ==
    /\ pc = "scan"
    /\ eid \in pending
    /\ pending' = pending \ {eid}
    /\ all_records' = all_records \o TaskRecs(eid, api)
    /\ fetch_failed' = IF api.fail_at # 0 THEN fetch_failed \cup {eid} ELSE fetch_failed
    /\ UNCHANGED <<pc, mode, event_id_range, managed_ids, target_room_ids, detail_ok>>
    /\ scan_unchanged

\* one iteration whose fut.result() raises (st.error, nothing appended)
FutureRaises(eid) ==
    /\ pc = "scan"
    /\ eid \in pending
    /\ pending' = pending \ {eid}
    /\ fetch_failed' = fetch_failed \cup {eid}
    /\ UNCHANGED <<pc, mode, event_id_range, managed_ids, target_room_ids, all_records,
                   detail_ok>>
    /\ scan_unchanged

\* "if not all_records: st.warning(...); st.stop()"
EmptyScanStop ==
    /\ pc = "scan"
    /\ pending = {}
    /\ all_records = <<>>
    /\ pc' = "stopped"
    /\ UNCHANGED <<mode, event_id_range, managed_ids, target_room_ids, pending,
                   all_records, fetch_failed, detail_ok>>
    /\ scan_unchanged

\* load_event_db: the snapshot, or an empty DataFrame when the request fails
load_event_db(db, ok) == IF ok THEN published[db] ELSE <<>>

LoadExisting(ok) ==
    /\ pc = "scan"
    /\ pending = {}
    /\ all_records # <<>>
    /\ pc' = "merge"
    /\ load_ok' = ok
    /\ existing_df' = load_event_db(Db, ok)
    /\ merged_df' = load_event_db(Db, ok)
    /\ next_row' = 1
    /\ UNCHANGED <<published, mode, event_id_range, managed_ids, target_room_ids,
                   pending, all_records, fetch_failed, detail_ok, updated_rows,
                   added_rows, deleted_rows, uploads, download_offered, success_shown>>

\* one iteration of the merge loop
MergeStep ==
    /\ pc = "merge"
    /\ next_row <= Len(all_records)
    /\ LET new_row == all_records[next_row]
       IN  /\ merged_df' = MergeRow(merged_df, new_row)
           /\ IF Mask(merged_df, new_row) # {}
              THEN updated_rows' = updated_rows + 1 /\ added_rows' = added_rows
              ELSE added_rows' = added_rows + 1 /\ updated_rows' = updated_rows
    /\ next_row' = next_row + 1
    /\ UNCHANGED <<published, pc, mode, event_id_range, managed_ids, target_room_ids,
                   pending, all_records, fetch_failed, detail_ok, load_ok, existing_df,
                   deleted_rows, uploads, download_offered, success_shown>>

Pruned(merged) ==
    IF mode = "full"
    THEN PruneFull(PruneFull(merged, target_room_ids, event_id_range, NewPairs(all_records)),
                   target_room_ids, event_id_range, NewPairs(all_records))
    ELSE PruneAdd(merged, event_id_range, NewPairs(all_records))

Sorted(merged) == IF mode = "full" THEN SortFull(merged) ELSE SortAdd(merged)

RECURSIVE MergeAll(_, _)
\* the whole merge loop over df_new
MergeAll(merged, df_new) ==
    IF df_new = <<>> THEN merged
    ELSE MergeAll(MergeRow(merged, Head(df_new)), Tail(df_new))

\* what run_db_update computes from the snapshot it read and the records of
\* its scan: merge loop, pruning (applied twice), sort
FullRebuild(existing, df_new, target, scanned_event_ids) ==
    LET merged == MergeAll(existing, df_new)
        once == PruneFull(merged, target, scanned_event_ids, NewPairs(df_new))
    IN  SortFull(PruneFull(once, target, scanned_event_ids, NewPairs(df_new)))

\* the same for run_add_db_update
AddRebuild(existing, df_new, scanned_event_ids) ==
    SortAdd(PruneAdd(MergeAll(existing, df_new), scanned_event_ids, NewPairs(df_new)))

\* ftp_upload_bytes: configured: st.secrets["ftp"] has host and user;
\* stored[i]: the i-th login and STOR went through.  TRUE: it returned True,
\* FALSE: it raised (the settings are missing, or every attempt failed).
ftp_upload_bytes(configured, stored) ==
    configured /\ \E i \in 1 .. FtpRetries : stored[i]

\* an except branch that only warns
UploadFailed_warning_only ==
    /\ download_offered' = FALSE
    /\ pc' = "upload_failed"
    /\ UNCHANGED <<published, uploads, success_shown>>

\* "except Exception as e": st.warning and st.download_button of csv_bytes
UploadFailed ==
    /\ download_offered' = TRUE
    /\ pc' = "upload_failed"
    /\ UNCHANGED <<published, uploads, success_shown>>

\* what ftp_upload_bytes can do, over every state of the FTP settings and
\* every outcome of its attempts
FtpOutcomes ==
    {ftp_upload_bytes(configured, stored) :
        configured \in BOOLEAN, stored \in [1 .. FtpRetries -> BOOLEAN]}

\* the pruning, the sort and the upload (uploaded: ftp_upload_bytes returned)
PruneSortUpload(uploaded) ==
    /\ pc = "merge"
    /\ next_row > Len(all_records)
    /\ LET pruned == Pruned(merged_df)
       IN  /\ merged_df' = Sorted(pruned)
           /\ deleted_rows' = Len(merged_df) - Len(pruned)
    /\ IF uploaded
       THEN /\ published' = [published EXCEPT ![Db] = merged_df']
            /\ uploads' = uploads + 1
            /\ success_shown' = TRUE
            /\ download_offered' = FALSE
            /\ pc' = "done"
       ELSE UploadFailed
    /\ UNCHANGED <<mode, event_id_range, managed_ids, target_room_ids, pending,
                   all_records, fetch_failed, detail_ok, load_ok, existing_df, next_row,
                   updated_rows, added_rows>>

\* the operator's target rooms: none, or some but not all rooms of the model
\* (a list naming every room selects the same rows as no list)
TargetInputs == (SUBSET Rooms) \ {Rooms}

\* the rooms whose contribution lookup answers during one scan: none, one
\* room only, or all
Answering == {{}, {7}, Rooms}

Next ==
    \/ /\ pc = "idle"
       /\ \E s \in EventIds, e \in EventIds, rooms \in SUBSET Rooms, t \in TargetInputs,
             answering \in Answering :
             s <= e /\ run_db_update(s, e, rooms, t, answering)
       /\ UNCHANGED outside_rebuild
    \/ /\ pc = "idle"
       /\ \E s \in EventIds, e \in EventIds, rooms \in SUBSET Rooms,
             answering \in Answering :
             s <= e /\ run_add_db_update(s, e, rooms, answering)
       /\ UNCHANGED outside_rebuild
    \/ (\E m \in {"full", "add"} : RoomListUnreadable(m)) /\ UNCHANGED outside_rebuild
    \/ (\E eid \in pending, api \in Apis : FutureReturns(eid, api)) /\ UNCHANGED outside_rebuild
    \/ (\E eid \in pending : FutureRaises(eid)) /\ UNCHANGED outside_rebuild
    \/ EmptyScanStop /\ UNCHANGED outside_rebuild
    \/ (\E ok \in BOOLEAN : LoadExisting(ok)) /\ UNCHANGED outside_rebuild
    \/ MergeStep /\ UNCHANGED outside_rebuild
    \/ /\ \E uploaded \in FtpOutcomes : PruneSortUpload(uploaded)
       /\ UNCHANGED outside_rebuild

Spec == Init /\ [][Next]_vars

(***************************************************************************)
(* The roster pager against an arbitrary endpoint: every page request is    *)
(* answered by any response the endpoint can give.                          *)
(***************************************************************************)
\* what http_get_json can return for a room_list request
Responses ==
    {<<>>} \cup
    {<<d>> : d \in [list : SeqsUpTo(Entry, PageSize), next_page : BOOLEAN,
                    current_page : 1 .. 2, last_page : 1 .. 2]}

\* a non-empty page that says another page follows
AnnouncesMore(data) ==
    /\ data # <<>>
    /\ data[1].list # <<>>
    /\ data[1].next_page
    /\ data[1].current_page # data[1].last_page

InitPager ==
    /\ published = [main |-> <<>>, add |-> <<>>]
    /\ RebuildIdle
    /\ PagerIdle
    /\ SessionsIdle
    /\ HttpIdle
    /\ CalcIdle
    /\ ViewNew

\* the call fetch_all_pages_entries(event_id, f)
PagerCall(f) ==
    /\ pager_pc = "idle"
    /\ pager_pc' = "running"
    /\ filter_ids' = f
    /\ UNCHANGED <<pager, requests, endless, last_response, served>>

\* one iteration of its while loop: the request and what follows it
PagerRequest(data) ==
    /\ pager_pc = "running"
    /\ ~pager.done
    /\ requests <= MaxPages
    /\ requests' = requests + 1
    /\ pager' = PagerStep(pager, data, filter_ids)
    /\ endless' = (endless /\ AnnouncesMore(data))
    /\ last_response' = data
    /\ served' = IF last_response = <<>> \/ last_response[1].list = <<>> THEN served
                 ELSE served \cup {last_response[1].current_page}
    /\ UNCHANGED <<pager_pc, filter_ids>>

\* "return entries"
PagerReturn ==
    /\ pager_pc = "running"
    /\ pager.done
    /\ pager_pc' = "returned"
    /\ UNCHANGED <<pager, filter_ids, requests, endless, last_response, served>>

NextPager ==
    \/ (\E f \in SUBSET Rooms : PagerCall(f)) /\ UNCHANGED outside_pager
    \/ (\E data \in Responses : PagerRequest(data)) /\ UNCHANGED outside_pager
    \/ PagerReturn /\ UNCHANGED outside_pager

SpecPager == InitPager /\ [][NextPager]_vars


(***************************************************************************)
(* One call of http_get_json against a server that may answer each request  *)
(* with any status or fail it with an exception.                            *)
(***************************************************************************)
InitHttp ==
    /\ published = [main |-> <<>>, add |-> <<>>]
    /\ RebuildIdle
    /\ PagerIdle
    /\ SessionsIdle
    /\ HttpIdle
    /\ CalcIdle
    /\ ViewNew

\* http_get_json(url, params, retries = n) of the given variant
HttpCall(variant, n) ==
    /\ http.pc = "idle"
    /\ http' = [http EXCEPT !.pc = "loop", !.variant = variant, !.retries = n]

\* one iteration of the for loop: requests.get and what follows
HttpRequest(answer) ==
    /\ http.pc = "loop"
    /\ http.i < http.retries
    /\ LET a == HttpAttempt(http.variant, http.i, answer)
           log == Append(http.log, [answer |-> answer, slept |-> a.slept])
       IN  IF a.outcome = "next"
           THEN http' = [http EXCEPT !.i = http.i + 1, !.log = log]
           ELSE http' = [http EXCEPT !.pc = "returned", !.result = a.outcome,
                                     !.log = log]

\* the loop is exhausted: return None
HttpGivesUp ==
    /\ http.pc = "loop"
    /\ http.i = http.retries
    /\ http' = [http EXCEPT !.pc = "returned", !.result = "None"]

NextHttp ==
    \/ /\ \E variant \in {"viewer", "admin"}, n \in 1 .. MaxRetries : HttpCall(variant, n)
       /\ UNCHANGED outside_http
    \/ (\E answer \in Answers : HttpRequest(answer)) /\ UNCHANGED outside_http
    \/ HttpGivesUp /\ UNCHANGED outside_http

SpecHttp == InitHttp /\ [][NextHttp]_vars

(***************************************************************************)
(* The helpers of the viewer, each applied to inputs drawn from small sets. *)
(***************************************************************************)
\* the current times of the model
NowValues == {7230, 90000}

\* the minutes the time texts of the model name
Minutes == {59, 60, 61, 120, 121, 1440, 1560}

\* what the end column of a loaded snapshot can hold: nothing, a time text, a
\* date text, an epoch number with and without seconds, any other text
EndValues ==
    {<<>>, DateText(1), Num(3631), Num(7260), Junk(TRUE), Junk(FALSE)}
        \cup {<<m>> : m \in Minutes}

InitCalc ==
    /\ published = [main |-> <<>>, add |-> <<>>]
    /\ RebuildIdle
    /\ PagerIdle
    /\ SessionsIdle
    /\ HttpIdle
    /\ CalcIdle
    /\ ViewNew

\* the formatting of the end column, its timestamps and the two flags of the
\* viewer (lines 432-445, 1186-1198), for a frame with the given end values
ClassifyRow(v, now_ts) ==
    LET shown == fmt_time(v)
        end_ts == parse_to_ts(shown)
    IN  [stored |-> v, end |-> shown, end_ts |-> end_ts,
         is_ongoing |-> is_ongoing(end_ts, now_ts),
         is_end_today |-> is_end_today(end_ts, Midnight(now_ts))]

Classify(ends, now_ts) ==
    /\ calc.op = "idle"
    /\ calc' = [op |-> "classify", now_ts |-> now_ts,
                rows |-> [i \in DOMAIN ends |-> ClassifyRow(ends[i], now_ts)]]

\* what the point column of one participant's records can hold
Scores == {<<n>> : n \in {30, 50, 80, 100, 120, 150}}
PointValues == {<<>>, Junk(FALSE)} \cup Scores

\* the point columns that are ranked: every column of up to four values, and
\* the columns of MaxRecords scores
PointColumns ==
    UNION {[1 .. n -> PointValues] : n \in 1 .. 4} \cup [1 .. MaxRecords -> Scores]

\* step 6 of the liver mode (lines 1213-1221) on the records of one participant
RankPoints(points) ==
    /\ calc.op = "idle"
    /\ LET nums == [i \in DOMAIN points |-> to_numeric(points[i])]
       IN  calc' = [op |-> "rank",
                    rows |-> [i \in DOMAIN points |->
                                [point |-> points[i],
                                 point_num |-> nums[i],
                                 rank |-> rank_dense(nums, i),
                                 highlight_style |-> highlight_style(rank_dense(nums, i))]]]

\* epoch seconds: whole minutes and not, on both sides of MsThreshold / 1000,
\* up to MsThreshold
EpochValues ==
    {60, 1500, MsThreshold \div 1000, MsThreshold \div 1000 + 1, 3600, 3631, 7260, 86400,
     MsThreshold - 20, MsThreshold}

\* the values the two helpers are applied to
TimeValues ==
    EndValues \cup {Num(e) : e \in EpochValues} \cup {Num(1000 * e) : e \in EpochValues}

\* parse_to_ts(x), fmt_time(x), and the way back
Normalise(x) ==
    /\ calc.op = "idle"
    /\ LET ts == parse_to_ts(x)
       IN  calc' = [op |-> "normalise", x |-> x,
                    ts |-> ts,
                    shown |-> fmt_time(x),
                    back |-> parse_to_ts(fmt_time(x)),
                    again |-> IF ts = <<>> THEN <<>>
                              ELSE parse_to_ts(fmt_time(Num(ts[1])))]

\* parse_to_ts of the epoch seconds e and of the same instant in milliseconds
Disambiguate(e) ==
    /\ calc.op = "idle"
    /\ calc' = [op |-> "milliseconds", e |-> e,
                seconds |-> parse_to_ts(Num(e)),
                millis |-> parse_to_ts(Num(1000 * e))]

\* the roster entries a record is built from: every key present, zero or
\* missing, event_entry an object with or without quest_level, or no object
RawEntries ==
    [room_id : {7}, rank : {<<>>, <<0>>, <<1>>}, position : {<<>>, <<2>>},
     point : {<<>>, <<0>>, <<150>>}, total_point : {<<>>, <<90>>},
     quest_level : {<<>>, <<0>>, <<5>>}, event_entry : {<<>>, <<<<>>>>, <<<<3>>>>}]

\* the record process_event_full / process_event_add build from the entry e
\* (answering: the detail lookup of its room returned an event)
BuildRecord(e, answering) ==
    /\ calc.op = "idle"
    /\ calc' = [op |-> "record", entry |-> e,
                rec |-> Recs(FirstEventId, <<e>>, answering)[1]]

\* each helper is applied once, to every input of the model
\* what get_event_stats_from_roomlist returns for one row: None, or the rank,
\* point and level of the roster entry, each of which can be None
StatsValues ==
    {<<>>,
     <<[rank |-> <<3>>, point |-> <<250>>, quest_level |-> <<>>]>>,
     <<[rank |-> <<>>, point |-> <<>>, quest_level |-> <<4>>]>>}

\* the end column of a stored row, as a rebuild writes it: empty, or a time
\* text (one long over, one at the time of the run)
RefreshEnds == {<<>>, <<60>>, <<1560>>}

\* the time of the refresh
RefreshNow == 90000 + 3600

\* the session's snapshot: row i has the index label i
RefreshFrame(ends) ==
    [i \in DOMAIN ends |->
        [OldRow(FirstEventId + (i % 2), IF i <= 2 THEN 7 ELSE 8) EXCEPT !.end = ends[i]]]

\* the working frame df of the admin view: the rows with the labels in shown,
\* start and end formatted, __end_ts and is_ongoing added (lines 412-444)
WorkingFrame(df_all, shown, now_ts) ==
    [i \in shown |->
        LET end == fmt_time(df_all[i].end)
        IN  [row |-> [df_all[i] EXCEPT !.start = fmt_time(df_all[i].start), !.end = end],
             end_ts |-> parse_to_ts(end),
             is_ongoing |-> is_ongoing(parse_to_ts(end), now_ts)]]

\* a worker that reports every result under the first label
update_event_stats_first_label(i, stats) ==
    IF stats # <<>> THEN <<[idx |-> 1, stats |-> stats[1]]>> ELSE <<>>

\* update_event_stats(row) of the row with label i, whose lookup gave stats:
\* (row.name, stats), or None
update_event_stats(i, stats) ==
    IF stats # <<>> THEN <<[idx |-> i, stats |-> stats[1]]>> ELSE <<>>

\* target_df.at[idx, "順位" / "ポイント" / "レベル"] = ... (lines 472-474, 1207-1209)
RefreshedRow(row, stats) ==
    [row EXCEPT !.rank = IF Truthy(stats.rank) THEN stats.rank ELSE Dash,
                !.point = IF Truthy(stats.point) THEN stats.point[1] ELSE 0,
                !.level = IF Truthy(stats.quest_level) THEN stats.quest_level ELSE <<0>>]

\* st.session_state.df_all.update(df): the rows of df_all with a label of df
\* take df's values in the columns of df_all
df_update(df_all, df) ==
    [i \in DOMAIN df_all |-> IF i \in DOMAIN df THEN df[i].row ELSE df_all[i]]

\* the admin run submits one lookup per ongoing row of df to the pool
SubmitLookups(ends, shown, stats) ==
    /\ calc.op = "idle"
    /\ LET df_all == RefreshFrame(ends)
           df == WorkingFrame(df_all, shown, RefreshNow)
       IN  calc' = [op |-> "refreshing", loaded |-> df_all, working |-> df,
                    df_all |-> df_all, df |-> df, stats |-> stats,
                    futures |-> {i \in shown : df[i].is_ongoing}]

\* as_completed yields the future of row i: its result is written to both
\* frames by the main thread
FutureCompleted(i) ==
    /\ calc.op = "refreshing"
    /\ i \in calc.futures
    /\ LET res == update_event_stats(i, calc.stats[i])
       IN  calc' = IF res = <<>>
                   THEN [calc EXCEPT !.futures = calc.futures \ {i}]
                   ELSE [calc EXCEPT
                           !.futures = calc.futures \ {i},
                           !.df_all[res[1].idx] =
                               RefreshedRow(calc.df_all[res[1].idx], res[1].stats),
                           !.df[res[1].idx].row =
                               RefreshedRow(calc.df[res[1].idx].row, res[1].stats)]

\* every future is done: the pool is left and df is written to the session
PoolDone ==
    /\ calc.op = "refreshing"
    /\ calc.futures = {}
    /\ calc' = [calc EXCEPT !.op = "refreshed", !.df_all = df_update(calc.df_all, calc.df)]

NextCalc ==
    \/ /\ calc.op = "idle"
       /\ \E ends \in [1 .. MaxRefresh -> RefreshEnds], shown \in SUBSET (1 .. MaxRefresh),
             stats \in [1 .. MaxRefresh -> StatsValues] : SubmitLookups(ends, shown, stats)
       /\ UNCHANGED outside_calc
    \/ (\E i \in 1 .. MaxRefresh : FutureCompleted(i)) /\ UNCHANGED outside_calc
    \/ PoolDone /\ UNCHANGED outside_calc
    \/ /\ calc.op = "idle"
       /\ \E e \in RawEntries, answering \in {{}, Rooms} : BuildRecord(e, answering)
       /\ UNCHANGED outside_calc
    \/ /\ calc.op = "idle"
       /\ \E x \in TimeValues : Normalise(x)
       /\ UNCHANGED outside_calc
    \/ /\ calc.op = "idle"
       /\ \E e \in EpochValues : Disambiguate(e)
       /\ UNCHANGED outside_calc
    \/ /\ calc.op = "idle"
       /\ \E ends \in [1 .. MaxFrame -> EndValues], now_ts \in NowValues : Classify(ends, now_ts)
       /\ UNCHANGED outside_calc
    \/ /\ calc.op = "idle"
       /\ \E points \in PointColumns : RankPoints(points)
       /\ UNCHANGED outside_calc

SpecCalc == InitCalc /\ [][NextCalc]_vars

(***************************************************************************)
(* One browser session of the viewer.  Every action is one script run, with *)
(* the callback of the button that caused it.  A text of the input field is *)
(* the sequence of its parts: <<>> is "", <<"touroku", "7">> is "touroku7". *)
(***************************************************************************)
\* what the operator can type into the room id field
RoomInputs ==
    {<<>>, <<"7">>, <<"8">>, <<"touroku", "7">>, <<"mksp154851">>,
     <<"touroku">>}

\* what can be typed into the authentication field
Codes == {<<>>, <<"7">>, <<"9">>}

\* the first column of room_list.csv, as it can be fetched
CodeLists == {{}, {<<"7">>}}

\* room_id.startswith("touroku")
is_touroku(text) == text # <<>> /\ text[1] = "touroku"

\* room_id.replace("touroku", "", 1) of a text that starts with it
without_touroku(text) == Tail(text)

\* EVENT_DB_ACTIVE_URL, as the database it names
active_db(text) == IF is_touroku(text) THEN "add" ELSE "main"

\* str(room id) of a row
RoomText(r) == IF r = 7 THEN "7" ELSE IF r = 8 THEN "8" ELSE "9"

\* midnight ten days before the run and 2023/09/01 00:00 JST, on the scale
\* of the model's timestamps
FILTER_END_DATE_TS_DEFAULT == 12000
FILTER_START_TS == 0

\* "if not end_ts or pd.isna(end_ts)"
NoEndTs(end_ts) == end_ts = <<>> \/ end_ts[1] = 0

RECURSIVE recent_until_break(_, _, _)
\* the loop over df.iterrows() from row i on: a row is kept when its end
\* timestamp is empty or not before the cutoff, the first other row ends the
\* loop
recent_until_break(df, i, cutoff_ts) ==
    IF i > Len(df) THEN <<>>
    ELSE LET end_ts == parse_to_ts(df[i].end)
         IN  IF NoEndTs(end_ts) \/ end_ts[1] >= cutoff_ts
             THEN <<df[i]>> \o recent_until_break(df, i + 1, cutoff_ts)
             ELSE <<>>

\* the rows the admin view works on: both loops when the full display is
\* off, then the filters on __start_ts and __end_ts
admin_rows(df_all, admin_full_data) ==
    LET loaded == IF admin_full_data THEN df_all
                  ELSE recent_until_break(df_all, 1, FILTER_END_DATE_TS_DEFAULT)
        df == IF admin_full_data THEN loaded
              ELSE recent_until_break(loaded, 1, FILTER_END_DATE_TS_DEFAULT)
        started == SelectSeqBy(df, {i \in DOMAIN df :
                       LET start_ts == parse_to_ts(fmt_time(df[i].start))
                       IN  start_ts = <<>> \/ start_ts[1] >= FILTER_START_TS})
    IN  IF admin_full_data THEN started
        ELSE SelectSeqBy(started, {i \in DOMAIN started :
                 LET end_ts == parse_to_ts(fmt_time(started[i].end))
                 IN  end_ts = <<>> \/ end_ts[1] >= FILTER_END_DATE_TS_DEFAULT})

\* the rows of one room (liver mode, line 1178), or the admin's rows
RowsShown(df, room_id, is_admin, admin_full_data) ==
    IF is_admin THEN admin_rows(df, admin_full_data)
    ELSE SelectSeqBy(df, {i \in DOMAIN df : room_id = <<RoomText(df[i].room_id)>>})

\* rows a main database can hold: one that ended after the cutoff, one that
\* ended before it, one without end time
StoredRows ==
    {OldRow(FirstEventId, 7), OldRow(LastEventId, 8),
     [OldRow(LastEventId, 7) EXCEPT !.end = <<>>]}

RECURSIVE SeqOfRows(_)
SeqOfRows(S) ==
    IF S = {} THEN <<>>
    ELSE LET x == CHOOSE y \in S : TRUE IN Append(SeqOfRows(S \ {x}), x)

InitViewer ==
    /\ \E S \in SUBSET StoredRows :
           published = [main |-> SortFull(SeqOfRows(S)),
                        add |-> SortAdd(RowsOf({<<LastEventId, 7>>}))]
    /\ RebuildIdle
    /\ PagerIdle
    /\ SessionsIdle
    /\ HttpIdle
    /\ CalcIdle
    /\ ViewNew

\* a script run of a session that is not authenticated (lines 287-318):
\* pressed: "認証する" was pressed with the code in the field; fetched: the
\* request of room_list.csv succeeded, with the codes valid_codes.  After a
\* success st.rerun() starts the run of an authenticated session with the
\* session's input value.  attempt records what the run was given.
\* a gate that accepts any non-empty code
AuthRun_any_code(s, pressed, code, fetched, valid_codes) ==
    LET tried == [s EXCEPT !.attempt = <<[pressed |-> pressed, code |-> code,
                                          fetched |-> pressed /\ code # <<>> /\ fetched,
                                          valid_codes |-> valid_codes]>>]
    IN  IF pressed /\ code # <<>>
        THEN [tried EXCEPT !.authenticated = TRUE]
        ELSE [tried EXCEPT !.run = [NoRun EXCEPT !.reached = "auth_stop"]]

AuthRun(s, pressed, code, fetched, valid_codes) ==
    LET tried == [s EXCEPT !.attempt = <<[pressed |-> pressed, code |-> code,
                                          fetched |-> pressed /\ code # <<>> /\ fetched,
                                          valid_codes |-> valid_codes]>>]
    IN  IF pressed /\ code # <<>> /\ fetched /\ code \in valid_codes
        THEN [tried EXCEPT !.authenticated = TRUE]
        ELSE [tried EXCEPT !.run = [NoRun EXCEPT !.reached = "auth_stop"]]

\* the script run of an authenticated session from the input field down to
\* the table (lines 322-376, 1178); ok: the request of load_event_db succeeds.
\* origin records from which database the cached frame was loaded.
ViewerRun(s, ok) ==
    LET text == s.room_input_value
        room_id == IF is_touroku(text) THEN without_touroku(text) ELSE text
        db == active_db(text)
        is_admin == text = <<"mksp154851">>
        do_show == s.show_data /\ text # <<>>
        load == s.refresh_trigger \/ s.df_all = <<>>
        df_all == IF load THEN <<[origin |-> db, rows |-> load_event_db(db, ok)]>>
                  ELSE s.df_all
    IN  IF ~do_show
        THEN [s EXCEPT !.run = [NoRun EXCEPT !.reached = "input_stop", !.active = db]]
        ELSE [s EXCEPT !.df_all = df_all,
                       !.refresh_trigger = IF load THEN FALSE ELSE s.refresh_trigger,
                       !.run = IF df_all[1].rows = <<>>
                               THEN [NoRun EXCEPT !.reached = "empty_stop", !.active = db,
                                                  !.source = df_all[1].origin]
                               ELSE [reached |-> "table", active |-> db,
                                     source |-> df_all[1].origin,
                                     rows |-> RowsShown(df_all[1].rows, room_id,
                                                        is_admin, s.admin_full_data)]]

\* any script run of a session: the gate first, the viewer behind it
ScriptRun(s, pressed, code, fetched, valid_codes, ok) ==
    IF ~s.authenticated
    THEN LET after == AuthRun(s, pressed, code, fetched, valid_codes)
         IN  IF after.authenticated THEN ViewerRun(after, ok) ELSE after
    ELSE ViewerRun(s, ok)

\* the session is not authenticated: the page shows the code field and the
\* button "認証する" only
Authenticate(pressed, code, fetched, valid_codes, ok) ==
    /\ ~view.authenticated
    /\ view' = ScriptRun(view, pressed, code, fetched, valid_codes, ok)

\* "表示する" with the text in the field: trigger_show_data, then the run
ShowData(text, ok) ==
    /\ view.authenticated
    /\ view' = ScriptRun([view EXCEPT !.room_input_value = text, !.show_data = TRUE],
                         FALSE, <<>>, FALSE, {}, ok)

\* "🔄 終了前イベントの最新化" (shown with the table): refresh_data, then the run
RefreshData(ok) ==
    /\ view.authenticated
    /\ view.run.reached = "table"
    /\ view' = ScriptRun([view EXCEPT !.refresh_trigger = TRUE, !.show_data = TRUE],
                         FALSE, <<>>, FALSE, {}, ok)

\* the checkbox "全量表示" of the admin view: toggle_full_data, then the run
ToggleFullData(ok) ==
    /\ view.authenticated
    /\ view.run.reached = "table"
    /\ view.room_input_value = <<"mksp154851">>
    /\ view' = ScriptRun([view EXCEPT !.admin_full_data = ~view.admin_full_data],
                         FALSE, <<>>, FALSE, {}, ok)

\* a run without callback (another widget of the page changed)
Rerun(ok) ==
    /\ view.authenticated
    /\ view' = ScriptRun(view, FALSE, <<>>, FALSE, {}, ok)

NextViewer ==
    \/ /\ \E pressed \in BOOLEAN, code \in Codes, fetched \in BOOLEAN,
             valid_codes \in CodeLists, ok \in BOOLEAN :
             Authenticate(pressed, code, fetched, valid_codes, ok)
       /\ UNCHANGED outside_view
    \/ (\E text \in RoomInputs, ok \in BOOLEAN : ShowData(text, ok)) /\ UNCHANGED outside_view
    \/ (\E ok \in BOOLEAN : RefreshData(ok)) /\ UNCHANGED outside_view
    \/ (\E ok \in BOOLEAN : ToggleFullData(ok)) /\ UNCHANGED outside_view
    \/ (\E ok \in BOOLEAN : Rerun(ok)) /\ UNCHANGED outside_view

SpecViewer == InitViewer /\ [][NextViewer]_vars

(***************************************************************************)
(* Two sessions press "イベントDB更新開始".  Each runs the handler on its own  *)
(* thread with its own locals; the published CSV is the only state they      *)
(* share and nothing in the handler takes a lock.  The room list holds every *)
(* room, no target room is given, every lookup answers and the snapshot can  *)
(* be read: what is explored is the interleaving only.                       *)
(***************************************************************************)
InitSessions ==
    /\ \E K \in Snapshots :
          /\ published = [main |-> SortFull(RowsOf(K)), add |-> <<>>]
          /\ snapshot0 = SortFull(RowsOf(K))
    /\ sessions = [s \in SessionIds |-> SessionIdle]
    /\ RebuildIdle
    /\ PagerIdle
    /\ HttpIdle
    /\ CalcIdle
    /\ ViewNew

\* the scan of session s over the range {eid} (lines 826-857)
SessionScan(s, eid, api) ==
    /\ sessions[s].pc = "idle"
    /\ sessions' = [sessions EXCEPT ![s].pc = "scan",
                                    ![s].event_id_range = {eid},
                                    ![s].all_records =
                                        process_event_full(eid, Rooms, {}, api, Rooms)]
    /\ UNCHANGED <<published, snapshot0>>

\* its scan found nothing: st.stop()
SessionStops(s) ==
    /\ sessions[s].pc = "scan"
    /\ sessions[s].all_records = <<>>
    /\ sessions' = [sessions EXCEPT ![s].pc = "stopped"]
    /\ UNCHANGED <<published, snapshot0>>

\* existing_df = load_event_db(EVENT_DB_URL), then merge, pruning and sort
SessionLoadsAndMerges(s) ==
    /\ sessions[s].pc = "scan"
    /\ sessions[s].all_records # <<>>
    /\ sessions' = [sessions EXCEPT ![s].pc = "merged",
                                    ![s].existing_df = load_event_db("main", TRUE),
                                    ![s].merged_df =
                                        FullRebuild(load_event_db("main", TRUE),
                                                    sessions[s].all_records, {},
                                                    sessions[s].event_id_range)]
    /\ UNCHANGED <<published, snapshot0>>

\* ftp_upload_bytes(ftp_path, csv_bytes) of session s
SessionUploads(s, uploaded) ==
    /\ sessions[s].pc = "merged"
    /\ IF uploaded
       THEN /\ published' = [published EXCEPT !.main = sessions[s].merged_df]
            /\ sessions' = [sessions EXCEPT ![s].pc = "done"]
       ELSE /\ sessions' = [sessions EXCEPT ![s].pc = "upload_failed"]
            /\ UNCHANGED published
    /\ UNCHANGED snapshot0

NextSessions ==
    \/ /\ \E s \in SessionIds, eid \in EventIds, api \in Apis : SessionScan(s, eid, api)
       /\ UNCHANGED outside_sessions
    \/ (\E s \in SessionIds : SessionStops(s)) /\ UNCHANGED outside_sessions
    \/ (\E s \in SessionIds : SessionLoadsAndMerges(s)) /\ UNCHANGED outside_sessions
    \/ /\ \E s \in SessionIds, uploaded \in FtpOutcomes : SessionUploads(s, uploaded)
       /\ UNCHANGED outside_sessions

SpecSessions == InitSessions /\ [][NextSessions]_vars

(***************************************************************************)
(* Properties of the rebuild.                                              *)
(***************************************************************************)
HasKey(df, event_id, room_id) ==
    \E j \in DOMAIN df : df[j].event_id = event_id /\ df[j].room_id = room_id

UniqueKeys(df) ==
    \A i, j \in DOMAIN df :
        (df[i].event_id = df[j].event_id /\ df[i].room_id = df[j].room_id) => i = j

\* the merge, the pruning and the sort of this invocation are over
Merged == pc \in {"done", "upload_failed"}

\* the participant filter the scan passed to the pager; {} is None
ScanFilter ==
    IF mode = "full" THEN FullFilter(managed_ids, target_room_ids) ELSE managed_ids

\* C1: every row of the existing snapshot whose event_id is outside the
\* scanned range start_id..end_id is still a row of the merged snapshot, in the
\* full rebuild and in the add rebuild, whatever the rosters returned.
C1_PruningRangeSafety ==
    Merged =>
        \A i \in DOMAIN existing_df :
            existing_df[i].event_id \notin event_id_range
                => \E j \in DOMAIN merged_df : merged_df[j] = existing_df[i]

\* a rebuild pruned rows of the scanned range while the snapshot held a row
\* outside it
C1_Witness ==
    /\ Merged
    /\ deleted_rows > 0
    /\ \E i \in DOMAIN existing_df : existing_df[i].event_id \notin event_id_range

\* C2: once a rebuild has ended (published, or stopped because the scan found
\* no record at all), the published snapshot holds no row (event_id, room)
\* of a scanned event whose roster was read completely and does not list the
\* room; the rooms considered are those the scan looks for.
C2_StaleRowDeleted ==
    pc \in {"done", "stopped"} =>
        \A i \in DOMAIN published[Db] :
            LET row == published[Db][i]
            IN  ~ /\ row.event_id \in event_id_range
                  /\ row.event_id \notin fetch_failed
                  /\ ScanFilter = {} \/ row.room_id \in ScanFilter
                  /\ target_room_ids = {} \/ row.room_id \in target_room_ids
                  /\ <<row.event_id, row.room_id>> \notin NewPairs(all_records)

\* C3: no existing row of an event id whose roster fetch failed (a task that
\* raised, a page request without data) is deleted by the rebuild.
C3_FailedFetchNotPruned ==
    Merged =>
        \A i \in DOMAIN existing_df :
            existing_df[i].event_id \in fetch_failed
                => HasKey(merged_df, existing_df[i].event_id, existing_df[i].room_id)

\* C4: when load_event_db cannot read the existing snapshot, the rebuild
\* uploads nothing.
C4_ReadFailureIsFatal == ~load_ok => uploads = 0

\* C5: if the existing snapshot has at most one row per (event_id, room_id),
\* so has the merged snapshot at every point of the merge and after it, also
\* when the new records name one key twice.
C5_UniqueKeysPreserved ==
    UniqueKeys(existing_df) => UniqueKeys(merged_df) /\ UniqueKeys(published[Db])

\* a published rebuild whose new records held the same key twice
C5_Witness ==
    /\ pc = "done"
    /\ \E i, j \in DOMAIN all_records :
          /\ i < j
          /\ all_records[i].event_id = all_records[j].event_id
          /\ all_records[i].room_id = all_records[j].room_id

\* C6: when the scan filters the roster by a participant set, no existing row
\* whose room is outside that set is deleted by the rebuild.
C6_AllowlistSafety ==
    Merged =>
        \A i \in DOMAIN existing_df :
            (ScanFilter # {} /\ existing_df[i].room_id \notin ScanFilter)
                => HasKey(merged_df, existing_df[i].event_id, existing_df[i].room_id)

\* the step of the merge loop for the new record at next_row
MergeStepTaken == pc = "merge" /\ next_row' = next_row + 1

\* C7 (a): a merge step whose key exists updates the first row of that key in
\* place, keeps the row count and adds 1 to updated only; a step whose key
\* does not exist appends the record and adds 1 to added only.
C7_Step ==
    MergeStepTaken =>
        LET new_row == all_records[next_row]
        IN  IF HasKey(merged_df, new_row.event_id, new_row.room_id)
            THEN /\ Len(merged_df') = Len(merged_df)
                 /\ updated_rows' = updated_rows + 1
                 /\ added_rows' = added_rows
                 /\ LET idx == FirstOf(Mask(merged_df, new_row))
                    IN  /\ merged_df'[idx].point = new_row.point
                        /\ merged_df'[idx].rank = new_row.rank
                        /\ merged_df'[idx].level = new_row.level
            ELSE /\ merged_df' = Append(merged_df, new_row)
                 /\ added_rows' = added_rows + 1
                 /\ updated_rows' = updated_rows

\* C7 (b): after the merge updated + added is the number of new records
C7_Counts ==
    /\ pc = "merge" => updated_rows + added_rows = next_row - 1
    /\ Merged => updated_rows + added_rows = Len(all_records)

\* C7 (c): the snapshot with the one row (500, "7", score 100) and the one new
\* record (500, "7", score 150) give one row with score 150, updated = 1,
\* added = 0, deleted = 0
C7_Example ==
    ( /\ Merged
      /\ existing_df = <<OldRow(500, 7)>>
      /\ Len(all_records) = 1
      /\ all_records[1].event_id = 500
      /\ all_records[1].room_id = 7
      /\ all_records[1].point = 150 )
    => /\ Len(merged_df) = 1
       /\ merged_df[1].point = 150
       /\ updated_rows = 1 /\ added_rows = 0 /\ deleted_rows = 0

\* C7: update versus add, the counts, and the example of the specification.
C7_UpdateVersusAdd == [][C7_Step]_vars /\ [](C7_Counts /\ C7_Example)

\* a rebuild that both updated and added rows
C7_Witness == Merged /\ updated_rows > 0 /\ added_rows > 0

\* the columns the merge may overwrite
MutableFields == {"rank", "point", "level", "event_name", "start", "end", "url"}
AllFields == DOMAIN OldRow(FirstEventId, 7)

\* C8: a merge step whose key exists changes, in the row it updates, no column
\* other than rank, score, level, event name, start, end and URL (note, linked
\* marker, PR marker, account id and stored display name keep their values),
\* and changes no other row.
C8_UpdateFrameStep ==
    (MergeStepTaken /\ Mask(merged_df, all_records[next_row]) # {}) =>
        LET idx == FirstOf(Mask(merged_df, all_records[next_row]))
        IN  /\ DOMAIN merged_df' = DOMAIN merged_df
            /\ \A i \in DOMAIN merged_df : i # idx => merged_df'[i] = merged_df[i]
            /\ \A f \in AllFields \ MutableFields :
                  merged_df'[idx][f] = merged_df[idx][f]

C8_UpdateFrame == [][C8_UpdateFrameStep]_vars

\* an update happened in a snapshot of two rows or more
C8_Witness == pc = "merge" /\ updated_rows > 0 /\ Len(merged_df) >= 2

\* C10 (a): the published snapshot changes only in the step that ends the
\* rebuild, when no future is pending and nothing was uploaded before
C10_PublishStep ==
    published' # published =>
        /\ pending = {}
        /\ pc = "merge" /\ next_row > Len(all_records)
        /\ pc' = "done"
        /\ uploads = 0

\* C10 (b): at most one upload, none before the end of the scan, none in a
\* rebuild that stopped or crashed
C10_Uploads ==
    /\ uploads <= 1
    /\ uploads = 1 => pc = "done" /\ pending = {}
    /\ pc \in {"idle", "scan", "merge", "stopped", "crashed", "upload_failed"} => uploads = 0

\* C10: no partial publish.
C10_NoPartialPublish == [][C10_PublishStep]_vars /\ []C10_Uploads

\* a rebuild over two event ids published its result
C10_Witness == pc = "done" /\ uploads = 1 /\ Cardinality(event_id_range) >= 2

\* C11: whenever the upload of the merged snapshot has failed (missing FTP
\* settings, or every attempt failed), the CSV is offered for download and no
\* success message is shown; the success message is shown only after an
\* upload that succeeded.
C11_PublishFailureKeepsResult ==
    /\ pc = "upload_failed" => download_offered /\ ~success_shown /\ uploads = 0
    /\ success_shown => pc = "done" /\ uploads = 1 /\ published[Db] = merged_df
    /\ download_offered => pc = "upload_failed"

\* an upload failed after a merge that produced rows
C11_Witness == pc = "upload_failed" /\ merged_df # <<>> /\ download_offered

\* C17: every record the scan produces, and every row the merge adds to the
\* snapshot, has its room in the participant set of the rebuild (the managed
\* list, the managed list intersected with the target rooms, or the add-room
\* list), also when that set is empty.
C17_FilterHonoured ==
    /\ \A i \in DOMAIN all_records : all_records[i].room_id \in ScanFilter
    /\ \A j \in DOMAIN merged_df :
          HasKey(existing_df, merged_df[j].event_id, merged_df[j].room_id)
              \/ merged_df[j].room_id \in ScanFilter

\* the descriptive columns the merge writes
DescriptiveFields == {"event_name", "start", "end", "url"}

\* C18: after the merge, a row that was in the snapshot with a known event
\* name, start, end or URL still has a value in that column, also when the
\* detail lookup of its rediscovered (event_id, room) failed.
C18_DetailFallback ==
    Merged =>
        \A i \in DOMAIN existing_df, j \in DOMAIN merged_df :
            ( /\ merged_df[j].event_id = existing_df[i].event_id
              /\ merged_df[j].room_id = existing_df[i].room_id )
            => \A f \in DescriptiveFields :
                  existing_df[i][f] # <<>> => merged_df[j][f] # <<>>

\* C19: the records one scan produces for the same event_id carry the same
\* event name, start, end, URL and image.
C19_EventScopedDetail ==
    \A i, j \in DOMAIN all_records :
        all_records[i].event_id = all_records[j].event_id =>
            \A f \in DescriptiveFields \cup {"image"} :
                all_records[i][f] = all_records[j][f]

RowSet(df) == {df[i] : i \in DOMAIN df}

\* the records one task returned: those of event id e, in roster order
RecsOfEvent(records, e) ==
    SelectSeqBy(records, {i \in DOMAIN records : records[i].event_id = e})

\* the orders in which the tasks that returned records can complete
CompletionOrders ==
    LET S == {all_records[i].event_id : i \in DOMAIN all_records}
    IN  {o \in [1 .. Cardinality(S) -> S] : \A a, b \in DOMAIN o : o[a] = o[b] => a = b}

RECURSIVE ExtendedInOrder(_, _)
\* all_records as "all_records.extend(recs)" builds it when the tasks complete
\* in the order o
ExtendedInOrder(o, n) ==
    IF n = 0 THEN <<>>
    ELSE ExtendedInOrder(o, n - 1) \o RecsOfEvent(all_records, o[n])

\* what this rebuild computes from the snapshot it read and the records df_new
RebuildOf(existing, df_new) ==
    IF mode = "full" THEN FullRebuild(existing, df_new, target_room_ids, event_id_range)
    ELSE AddRebuild(existing, df_new, event_id_range)

\* C20: for the snapshot the rebuild read and the records its tasks returned,
\* the published snapshot has the same rows, with the same values, for every
\* order in which the tasks could have completed.
C20_OrderIndependent ==
    pc = "done" =>
        \A o \in CompletionOrders :
            LET other == RebuildOf(existing_df, ExtendedInOrder(o, Len(o)))
            IN  RowSet(other) = RowSet(published[Db]) /\ Len(other) = Len(published[Db])

\* the task of the later event completed first, and the merge both updated
\* and added rows
C20_Witness ==
    /\ pc = "done"
    /\ Len(all_records) >= 2
    /\ all_records[1].event_id > all_records[Len(all_records)].event_id
    /\ updated_rows > 0
    /\ added_rows > 0

\* the rows a and b both have an end timestamp, and the order "end timestamp
\* descending, then event_id descending, then room id ascending" places a
\* strictly before b
EndOrderBefore(a, b) ==
    LET ta == parse_to_ts(a.end)
        tb == parse_to_ts(b.end)
    IN  /\ ta # <<>>
        /\ tb # <<>>
        /\ \/ ta[1] > tb[1]
           \/ ta[1] = tb[1] /\ BeforeAdd(a, b)

\* C21: in the snapshot a rebuild (full or add) has published, no row with an
\* end timestamp comes after a row with an end timestamp that the order "end
\* timestamp descending, event_id descending, room id ascending" places after
\* it; in particular no row has a smaller end timestamp than the row that
\* follows it.
C21_ResultOrdering ==
    pc = "done" =>
        \A i, j \in DOMAIN published[Db] :
            i < j => ~EndOrderBefore(published[Db][j], published[Db][i])

(***************************************************************************)
(* Properties of the viewer's helpers.                                     *)
(***************************************************************************)
\* C22: a row is flagged ongoing exactly when its end timestamp is not null
\* and is greater than now - 3600; a row without end timestamp is flagged
\* neither ongoing nor ends-today; and among the rows of one frame (one now)
\* a row whose end timestamp is not smaller than that of an ongoing row is
\* ongoing too.
C22_LifecycleWithGrace ==
    calc.op = "classify" =>
        /\ \A i \in DOMAIN calc.rows :
              LET r == calc.rows[i]
              IN  /\ r.is_ongoing <=> (r.end_ts # <<>> /\ r.end_ts[1] > calc.now_ts - 3600)
                  /\ r.end_ts = <<>> => ~r.is_ongoing /\ ~r.is_end_today
        /\ \A i, j \in DOMAIN calc.rows :
              LET a == calc.rows[i]
                  b == calc.rows[j]
              IN  ( /\ a.end_ts # <<>> /\ b.end_ts # <<>>
                    /\ a.end_ts[1] <= b.end_ts[1]
                    /\ a.is_ongoing )
                  => b.is_ongoing

\* one frame holds a row that ended within the last hour and is still flagged
\* ongoing, a row that ended before that, and the first is "ends today"
C22_Witness ==
    /\ calc.op = "classify"
    /\ \E i, j \in DOMAIN calc.rows :
          /\ calc.rows[i].end_ts # <<>>
          /\ calc.rows[i].end_ts[1] <= calc.now_ts
          /\ calc.rows[i].is_ongoing
          /\ calc.rows[i].is_end_today
          /\ calc.rows[j].end_ts # <<>>
          /\ ~calc.rows[j].is_ongoing

\* the numbers of the point column of the ranked frame
RankedScores == {calc.rows[i].point_num[1] : i \in {k \in DOMAIN calc.rows :
                                                     calc.rows[k].point_num # <<>>}}

\* C23: among one participant's records, those with a numeric score carry
\* the dense rank of the score in descending order (equal scores share a rank,
\* a larger score has a smaller rank, the ranks in use are 1..k without gaps;
\* [100, 100, 80, 50] gives [1, 1, 2, 3]); a record has the highlight style of
\* its rank exactly when the rank is 1..5; a record without numeric score has
\* no rank and no highlight and is still a row of the table.
C23_DenseRankHighlight ==
    calc.op = "rank" =>
        /\ \A i \in DOMAIN calc.rows :
              LET r == calc.rows[i]
              IN  /\ (r.point = <<>> \/ r.point = Junk(FALSE)) <=> r.rank = <<>>
                  /\ r.rank = <<>> => r.highlight_style = ""
                  /\ r.rank # <<>> =>
                        /\ r.rank[1] \in 1 .. Cardinality(RankedScores)
                        /\ r.rank[1] \in 1 .. 5 => r.highlight_style = HIGHLIGHT_COLORS[r.rank[1]]
                        /\ r.rank[1] > 5 => r.highlight_style = ""
        /\ \A k \in 1 .. Cardinality(RankedScores) :
              \E i \in DOMAIN calc.rows : calc.rows[i].rank = <<k>>
        /\ \A i, j \in DOMAIN calc.rows :
              LET a == calc.rows[i]
                  b == calc.rows[j]
              IN  (a.rank # <<>> /\ b.rank # <<>>) =>
                      /\ a.point[1] = b.point[1] <=> a.rank = b.rank
                      /\ a.point[1] > b.point[1] <=> a.rank[1] < b.rank[1]
        /\ [i \in DOMAIN calc.rows |-> calc.rows[i].point] = <<<<100>>, <<100>>, <<80>>, <<50>>>>
              => [i \in DOMAIN calc.rows |-> calc.rows[i].rank] = <<<<1>>, <<1>>, <<2>>, <<3>>>>

\* a frame of six distinct scores has been ranked: its smallest score has rank
\* 6 and no highlight, its largest the style of rank 1
C23_Witness ==
    /\ calc.op = "rank"
    /\ \E i, j \in DOMAIN calc.rows :
          /\ calc.rows[i].rank = <<6>> /\ calc.rows[i].highlight_style = ""
          /\ calc.rows[j].rank = <<1>> /\ calc.rows[j].highlight_style = HIGHLIGHT_COLORS[1]

\* the input of the normalisation is a number read as epoch seconds
IsEpochSeconds(x) == Len(x) = 2 /\ x[1] = "num" /\ x[2] <= MsThreshold

\* C24 as stated: for every epoch-seconds value e (a number up to the
\* millisecond threshold), parse_to_ts(fmt_time(e)) = e; and for every input x
\* that parses, parse_to_ts(fmt_time(parse_to_ts(x))) = parse_to_ts(x).
C24_RoundTripForEveryEpoch ==
    calc.op = "normalise" =>
        /\ IsEpochSeconds(calc.x) => calc.back = <<calc.x[2]>>
        /\ calc.ts # <<>> => calc.again = calc.ts

\* C24 as amended: for every epoch-seconds value e, parse_to_ts(fmt_time(e))
\* is e rounded down to the minute, hence e when e is a whole minute; and for
\* every input x whose parse is a whole minute not above the threshold,
\* parse_to_ts(fmt_time(parse_to_ts(x))) = parse_to_ts(x).
C24_NormalisationRoundTrip ==
    calc.op = "normalise" =>
        /\ IsEpochSeconds(calc.x) =>
              /\ calc.back = <<(calc.x[2] \div 60) * 60>>
              /\ calc.x[2] % 60 = 0 => calc.back = <<calc.x[2]>>
        /\ (calc.ts # <<>> /\ calc.ts[1] % 60 = 0 /\ calc.ts[1] <= MsThreshold)
              => calc.again = calc.ts

\* a whole minute given in milliseconds came back as itself
C24_Witness ==
    /\ calc.op = "normalise"
    /\ calc.x = Num(3600000)
    /\ calc.ts = <<3600>>
    /\ calc.again = <<3600>>

\* C25 as stated: for every epoch-seconds value e, the parse of 1000 * e is
\* the parse of e, and a number is divided by 1000 exactly when it exceeds the
\* threshold.
C25_MillisecondsForEveryEpoch ==
    calc.op = "milliseconds" =>
        /\ calc.millis = calc.seconds
        /\ calc.seconds = <<IF calc.e > MsThreshold THEN calc.e \div 1000 ELSE calc.e>>

\* C25 as amended: for every epoch-seconds value e above threshold / 1000 and
\* up to the threshold, the parse of 1000 * e is the parse of e, which is e;
\* and every number is divided by 1000 exactly when it exceeds the threshold.
C25_MillisecondDisambiguation ==
    calc.op = "milliseconds" =>
        /\ (MsThreshold \div 1000 < calc.e /\ calc.e <= MsThreshold) =>
              calc.millis = calc.seconds /\ calc.seconds = <<calc.e>>
        /\ calc.seconds = <<IF calc.e > MsThreshold THEN calc.e \div 1000 ELSE calc.e>>
        /\ calc.millis = <<IF 1000 * calc.e > MsThreshold THEN calc.e ELSE 1000 * calc.e>>

\* the threshold itself, read as seconds, and its milliseconds
C25_Witness ==
    /\ calc.op = "milliseconds"
    /\ calc.e = MsThreshold
    /\ calc.millis = <<MsThreshold>>

\* C26: a record built from a roster entry has score 0 when the entry has no
\* score, rank "-" when it has no rank, and as level the nested
\* event_entry.quest_level when present, otherwise the flat quest_level when
\* present, otherwise 0; the level is never None.
C26_FieldDefaults ==
    calc.op = "record" =>
        LET e == calc.entry
            rec == calc.rec
        IN  /\ (e.point = <<>> /\ e.total_point = <<>>) => rec.point = 0
            /\ (e.rank = <<>> /\ e.position = <<>>) => rec.rank = Dash
            /\ rec.level = IF e.event_entry # <<>> /\ e.event_entry[1] # <<>>
                           THEN e.event_entry[1]
                           ELSE IF e.quest_level # <<>> THEN e.quest_level ELSE <<0>>
            /\ rec.level # <<>>

\* the row with label i has been given the stats of its own lookup
Refreshed(i) ==
    /\ i \in DOMAIN calc.working
    /\ calc.working[i].is_ongoing
    /\ calc.stats[i] # <<>>
    /\ i \notin calc.futures

C27_SelectedDatabaseShown ==
    view.run.reached = "table" =>
        /\ view.run.source = active_db(view.room_input_value)
        /\ \A i \in DOMAIN view.run.rows :
              \E j \in DOMAIN published[active_db(view.room_input_value)] :
                  published[active_db(view.room_input_value)][j] = view.run.rows[i]

\* C28: with the full display off, the admin view keeps every row of the
\* loaded snapshot whose end timestamp is not before the cutoff and every row
\* whose end timestamp is empty, also for a snapshot in the order a rebuild
\* publishes it (rows without end timestamp last).
C28_RecentWindowComplete ==
    (/\ view.run.reached = "table"
     /\ view.room_input_value = <<"mksp154851">>
     /\ ~view.admin_full_data)
    => \A i \in DOMAIN view.df_all[1].rows :
          LET row == view.df_all[1].rows[i]
              end_ts == parse_to_ts(row.end)
          IN  (end_ts = <<>> \/ end_ts[1] >= FILTER_END_DATE_TS_DEFAULT)
              => \E j \in DOMAIN view.run.rows : view.run.rows[j] = row

\* the run that made the session authenticated was given a code of the list
AcceptedAttempt ==
    /\ view.attempt # <<>>
    /\ view.attempt[1].pressed
    /\ view.attempt[1].code # <<>>
    /\ view.attempt[1].fetched
    /\ view.attempt[1].code \in view.attempt[1].valid_codes

\* C30: a script run that reaches the loading of the snapshot (and with it
\* the live refresh and the rebuild controls) belongs to an authenticated
\* session; authenticated turns from False to True only in a run whose code is
\* in the fetched list of codes, stays False when the list cannot be fetched
\* or the code is empty or not in the list, and never turns back to False.
C30_AuthenticationGate ==
    /\ [](view.run.reached \in {"empty_stop", "table"} => view.authenticated)
    /\ [](view.df_all # <<>> => view.authenticated)
    /\ [][~view.authenticated
            => (view'.authenticated <=> (AcceptedAttempt)')]_vars
    /\ [][view.authenticated => view'.authenticated]_vars

C30_Witness ==
    /\ view.authenticated
    /\ AcceptedAttempt
    /\ view.run.reached = "table"
    /\ view.run.rows # <<>>

(***************************************************************************)
(* Properties of two overlapping rebuilds.                                 *)
(***************************************************************************)
\* the snapshot session s publishes when it runs alone on snapshot snap
AloneOn(s, snap) ==
    FullRebuild(snap, sessions[s].all_records, {}, sessions[s].event_id_range)

\* C12: once both sessions have published, the published snapshot is the one
\* that results from running the two rebuilds one after the other, in one of
\* the two orders, on the snapshot they started from.
C12_RebuildsSerialised ==
    (\A s \in SessionIds : sessions[s].pc = "done") =>
        \/ RowSet(published.main) = RowSet(AloneOn(2, AloneOn(1, snapshot0)))
        \/ RowSet(published.main) = RowSet(AloneOn(1, AloneOn(2, snapshot0)))

(***************************************************************************)
(* Properties of http_get_json.                                            *)
(***************************************************************************)
Gone == {"404", "410"}
Transient == Answers \ ({"200"} \cup Gone)

\* C15: in both variants an answer 404 or 410 is the last attempt of the call:
\* the call has returned None, without a sleep and without a further request,
\* whatever the retry budget.
C15_GoneIsNotRetried ==
    \A k \in DOMAIN http.log :
        http.log[k].answer \in Gone =>
            /\ k = Len(http.log)
            /\ http.pc = "returned"
            /\ http.result = "None"
            /\ http.log[k].slept = 0

\* a call with budget left returned on a 404 / 410 it got after a retry
C15_Witness ==
    /\ http.pc = "returned"
    /\ Len(http.log) = 2
    /\ http.retries = 3
    /\ http.log[2].answer \in Gone

\* C16: a call issues at most `retries` requests and returns None when all
\* failed; a transient failure that is followed by another attempt is followed
\* by a wait first; each wait is longer than the wait before it; the wait after
\* a 429 is longer than the wait other transient failures get at that attempt.
C16_BoundedIncreasingBackoff ==
    /\ Len(http.log) <= http.retries
    /\ (http.pc = "returned" /\ \A k \in DOMAIN http.log : http.log[k].answer # "200")
          => http.result = "None"
    /\ \A k \in DOMAIN http.log :
          /\ (k < Len(http.log) /\ http.log[k].answer \in Transient)
                => http.log[k].slept > 0
          /\ (k > 1 /\ http.log[k].answer \in Transient)
                => http.log[k].slept > http.log[k - 1].slept
          /\ http.log[k].answer = "429" => http.log[k].slept > Backoff * k

(***************************************************************************)
(* Properties of the roster pager.                                         *)
(***************************************************************************)
\* C9: against an endpoint that always returns a non-empty page and always
\* announces a next page, one call of the pager issues at most MaxPages page
\* requests (a hard bound ends the loop).
C9_PagerBounded == endless => requests <= MaxPages

\* a page request of the running pager was answered in this step
PageAnswered == pager_pc = "running" /\ requests' = requests + 1

\* the answer ends the roster: no data after the retries, a page without
\* entries, or no next page announced
StopSignal(data) ==
    \/ data = <<>>
    \/ data[1].list = <<>>
    \/ ~data[1].next_page

\* C13: the pager leaves its loop (and so issues no further request and
\* returns what it has accumulated) in the very iteration whose request
\* failed, returned a page of zero entries, or announced no next page.
C13_StopStep == (PageAnswered /\ StopSignal(last_response')) => pager'.done

C13_PagerStops == [][C13_StopStep]_vars

\* the answer is a page with entries whose current page number an earlier
\* answer already carried (a page of zero entries is the case of C13)
RepeatedPage(data) ==
    data # <<>> /\ data[1].list # <<>> /\ data[1].current_page \in served'

\* C14: when the endpoint answers with a page it has already served, the pager
\* leaves its loop in that iteration and accumulates none of its entries.
C14_RepeatStep ==
    (PageAnswered /\ RepeatedPage(last_response')) =>
        pager'.done /\ pager'.entries = pager.entries

C14_RepeatedPageDefence == [][C14_RepeatStep]_vars

=============================================================================
